---- MODULE Spec2Model ----
(***************************************************************************)
(* A model of the CSV uploader scripts of numetricbi/api-samples:          *)
(*   src/csv_uploader.py  (the v2 API script, called "csv_uploader")       *)
(*   src/csv-uploader.py  (the older script, called "csv-uploader")        *)
(* and of the field-name normalization of src/csv-unique-count.py.         *)
(* Strings are sequences of one-character strings; Python values are       *)
(* records [k, s, items, u] (k the Python type).                           *)
(***************************************************************************)
EXTENDS Integers, Sequences, FiniteSets, TLC

VARIABLES
  script,      \* which script runs
  args,        \* the parsed command line (args.datasetId is assigned by the run)
  file,        \* the CSV file: a sequence of lines [bytes, cells]
  fields,      \* process_file's field definitions (<<>> for None or [])
  pc,          \* position of process_file
  error,       \* the exception that ended the run ("" while none)
  message,     \* the message of a FieldError: its lines
  self,        \* the CsvExtractor: encoding, fieldnames, exception, tried, i
  gens,        \* the generators returned by extract_records, in call order
  yielded,     \* what each generator has yielded so far
  uuid,        \* _node, _clock_seq and the uuid module's _last_timestamp
  record,      \* the record being coerced
  rows,        \* the batch being filled
  batches,     \* the batch counter
  requests,    \* the HTTP requests issued, in order
  response,    \* the answer to the last request (r of request_api)
  stderr,      \* what request_api/post_to_api printed to stderr
  stdout       \* the "Uploaded file in N batches" line (0 lines or 1)

vars == <<script, args, file, fields, pc, error, message, self, gens,
          yielded, uuid, record, rows, batches, requests, response, stderr,
          stdout>>

----------------------------------------------------------------------------
(* Bounds of the model *)

MaxRecords == 3
MaxBatch == 2
MaxFields == 3
MaxValLen == 4
MaxCalls == 2
MaxClock == 2

----------------------------------------------------------------------------
(* Python values *)

\* [k, s, items, u]: the type, the characters of a str or the digits of an
\* int, the elements of a list, tuple or set, the fields of a UUID string
PyNone == [k |-> "NoneType", s |-> <<>>, items |-> <<>>, u |-> <<>>]
PyStr(s) == [k |-> "str", s |-> s, items |-> <<>>, u |-> <<>>]
PyInt(digits) == [k |-> "int", s |-> digits, items |-> <<>>, u |-> <<>>]
PyList(xs) == [k |-> "list", s |-> <<>>, items |-> xs, u |-> <<>>]
PyTuple(xs) == [k |-> "tuple", s |-> <<>>, items |-> xs, u |-> <<>>]
PySet(xs) == [k |-> "set", s |-> <<>>, items |-> xs, u |-> <<>>]
PyDict == [k |-> "dict", s |-> <<>>, items |-> <<>>, u |-> <<>>]
\* str(uuid.UUID): the text of the time, clock sequence and node fields
PyUuidStr(time, seq, node) ==
  [k |-> "str", s |-> <<"uuid">>, items |-> <<>>, u |-> <<time, seq, node>>]
\* a uuid.UUID object, not converted
PyUuid(time, seq, node) ==
  [k |-> "UUID", s |-> <<>>, items |-> <<>>, u |-> <<time, seq, node>>]

Unhashable == {"list", "set", "dict"}

----------------------------------------------------------------------------
(* ast.literal_eval on the expression grammar made of digits, letters,      *)
(* brackets, braces and commas: parse first (SyntaxError), then convert the *)
(* tree in evaluation order (ValueError for a node that is no literal,      *)
(* TypeError for an unhashable set element).                                *)

Digits == {"1", "2"}
Letters == {"x"}
ValueChars == Digits \cup Letters \cup {"[", "]", ",", "{", "}"}

SynErr == [syn |-> FALSE, err |-> "", val |-> PyNone, next |-> 0]
Node(e, v, n) == [syn |-> TRUE, err |-> e, val |-> v, next |-> n]
BadItems == [syn |-> FALSE, elts |-> <<>>, next |-> 0]

RECURSIVE RunEnd(_, _, _)
RunEnd(s, i, cs) ==
  IF i <= Len(s) /\ s[i] \in cs THEN RunEnd(s, i + 1, cs) ELSE i

\* the first conversion error of a list's or tuple's elements, in order
RECURSIVE FirstErr(_)
FirstErr(elts) ==
  IF elts = <<>> THEN ""
  ELSE IF elts[1].err # "" THEN elts[1].err
  ELSE FirstErr(Tail(elts))

\* set(map(_convert, elts)): each element is converted, then hashed
RECURSIVE SetErr(_)
SetErr(elts) ==
  IF elts = <<>> THEN ""
  ELSE IF elts[1].err # "" THEN elts[1].err
  ELSE IF elts[1].val.k \in Unhashable THEN "TypeError"
  ELSE SetErr(Tail(elts))

Vals(elts) == [j \in 1..Len(elts) |-> elts[j].val]

AddNew(r, x) == IF \E j \in 1..Len(r) : r[j] = x THEN r ELSE Append(r, x)

RECURSIVE Dedup(_)
Dedup(xs) ==
  IF xs = <<>> THEN <<>>
  ELSE AddNew(Dedup(SubSeq(xs, 1, Len(xs) - 1)), xs[Len(xs)])

RECURSIVE ParseExpr(_, _), ParseItems(_, _, _), ParseTrailers(_, _)

\* a number: a run of digits that no letter follows
NumberNode(s, i, j) ==
  IF j <= Len(s) /\ s[j] \in Letters THEN SynErr
  ELSE Node("", PyInt(SubSeq(s, i, j - 1)), j)

\* [ ... ]: a list of the converted elements
ListNode(r) ==
  IF ~r.syn THEN SynErr
  ELSE Node(FirstErr(r.elts), PyList(Vals(r.elts)), r.next)

\* { ... }: {} is the empty dict, anything else a set
BraceNode(r) ==
  IF ~r.syn THEN SynErr
  ELSE IF r.elts = <<>> THEN Node("", PyDict, r.next)
  ELSE Node(SetErr(r.elts), PySet(Dedup(Vals(r.elts))), r.next)

Closing(c) == IF c = "[" THEN "]" ELSE "}"

BracketNode(c, r) == IF c = "[" THEN ListNode(r) ELSE BraceNode(r)

ParseAtom(s, i) ==
  IF i > Len(s) THEN SynErr
  ELSE IF s[i] \in Digits THEN NumberNode(s, i, RunEnd(s, i, Digits))
  ELSE IF s[i] \in Letters THEN
    \* a name parses and is no literal
    Node("ValueError", PyNone, RunEnd(s, i, Letters \cup Digits))
  ELSE IF s[i] \in {"[", "{"} THEN
    BracketNode(s[i], ParseItems(s, i + 1, Closing(s[i])))
  ELSE SynErr

ConsItems(e, r) ==
  IF ~r.syn THEN BadItems
  ELSE [syn |-> TRUE, elts |-> <<e>> \o r.elts, next |-> r.next]

\* what follows element e: the closing character, or a comma and the rest
AfterItem(s, e, close) ==
  IF ~e.syn \/ e.next > Len(s) THEN BadItems
  ELSE IF s[e.next] = close
    THEN [syn |-> TRUE, elts |-> <<e>>, next |-> e.next + 1]
  ELSE IF s[e.next] = "," THEN ConsItems(e, ParseItems(s, e.next + 1, close))
  ELSE BadItems

\* elements separated by commas up to the closing character; a trailing
\* comma is allowed, an empty element is not
ParseItems(s, i, close) ==
  IF i > Len(s) THEN BadItems
  ELSE IF s[i] = close THEN [syn |-> TRUE, elts |-> <<>>, next |-> i + 1]
  ELSE AfterItem(s, ParseExpr(s, i), close)

\* a subscript x[...] parses when it is not empty, and is no literal
SubscriptNode(s, r) ==
  IF ~r.syn \/ r.elts = <<>> THEN SynErr
  ELSE ParseTrailers(s, Node("ValueError", PyNone, r.next))

ParseTrailers(s, a) ==
  IF ~a.syn THEN SynErr
  ELSE IF a.next <= Len(s) /\ s[a.next] = "["
    THEN SubscriptNode(s, ParseItems(s, a.next + 1, "]"))
  ELSE a

ParseExpr(s, i) == ParseTrailers(s, ParseAtom(s, i))

NoTop == [syn |-> FALSE, elts |-> <<>>, tuple |-> FALSE]

ConsTop(e, r) ==
  IF ~r.syn THEN NoTop
  ELSE [syn |-> TRUE, elts |-> <<e>> \o r.elts, tuple |-> TRUE]

RECURSIVE ParseTop(_, _)

AfterTop(s, e) ==
  IF ~e.syn THEN NoTop
  ELSE IF e.next > Len(s) THEN [syn |-> TRUE, elts |-> <<e>>, tuple |-> FALSE]
  ELSE IF s[e.next] # "," THEN NoTop
  ELSE IF e.next = Len(s) THEN [syn |-> TRUE, elts |-> <<e>>, tuple |-> TRUE]
  ELSE ConsTop(e, ParseTop(s, e.next + 1))

\* the whole string: one expression, or a tuple without parentheses
ParseTop(s, i) == AfterTop(s, ParseExpr(s, i))

Converted(r) ==
  IF ~r.syn THEN [exc |-> "SyntaxError", val |-> PyNone]
  ELSE IF r.tuple THEN [exc |-> FirstErr(r.elts), val |-> PyTuple(Vals(r.elts))]
  ELSE [exc |-> r.elts[1].err, val |-> r.elts[1].val]

\* ast.literal_eval(value): [exc, val]; a value that is no string (None of a
\* short row, the list under the rest key of a long row) is a malformed node
literal_eval(value) ==
  IF value.k # "str" THEN [exc |-> "ValueError", val |-> PyNone]
  ELSE Converted(ParseTop(value.s, 1))

----------------------------------------------------------------------------
(* Literal-list coercion of process_file's row loop *)

\* one value: [exc, val]. A SyntaxError or ValueError of literal_eval is
\* caught and the value stays; any other exception leaves the loop.
Coerced(value, r) ==
  IF r.exc \in {"SyntaxError", "ValueError"} THEN [exc |-> "", val |-> value]
  ELSE IF r.exc # "" THEN [exc |-> r.exc, val |-> value]
  ELSE IF r.val.k = "list" THEN
    IF Len(r.val.items) > 1 THEN [exc |-> "", val |-> r.val]
    ELSE IF Len(r.val.items) = 1 THEN [exc |-> "", val |-> r.val.items[1]]
    ELSE [exc |-> "", val |-> PyNone]
  ELSE [exc |-> "", val |-> value]

CoerceValue(value) == Coerced(value, literal_eval(value))

\* for field_name, value in record.items(): the record is a sequence of
\* [key, val] in insertion order; the loop stops at the first exception
RECURSIVE CoerceFrom(_, _)

CoerceStep(rec, j, c) ==
  IF c.exc # "" THEN [exc |-> c.exc, rec |-> rec]
  ELSE CoerceFrom([rec EXCEPT ![j].val = c.val], j + 1)

CoerceFrom(rec, j) ==
  IF j > Len(rec) THEN [exc |-> "", rec |-> rec]
  ELSE CoerceStep(rec, j, CoerceValue(rec[j].val))

CoerceRecord(rec) == CoerceFrom(rec, 1)

----------------------------------------------------------------------------
(* validate_fields *)

ALLOWED_TYPES == {"string", "integer", "double", "currency", "date", "time",
                  "datetime", "boolean", "geo_shape", "geo_point"}

\* a field definition of the JSON file: which of the keys 'field' and 'type'
\* it has, and their values
FieldDef(hasField, name, hasType, type) ==
  [hasField |-> hasField, field |-> name, hasType |-> hasType, type |-> type]

\* the errors of entry i (zero-based), in the order the code appends them
FieldErrors(field, i) ==
  (IF ~field.hasField
     THEN <<[what |-> "Missing 'field'", index |-> i, type |-> ""]>> ELSE <<>>)
  \o (IF ~field.hasType
        THEN <<[what |-> "Missing 'type'", index |-> i, type |-> ""]>>
      ELSE IF field.type \notin ALLOWED_TYPES
        THEN <<[what |-> "Invalid type", index |-> i, type |-> field.type]>>
      ELSE <<>>)

\* the errors of the first entry in violation only
RECURSIVE FirstErrorsFrom(_, _)
FirstErrorsFrom(defs, j) ==
  IF j > Len(defs) THEN <<>>
  ELSE IF FieldErrors(defs[j], j - 1) # <<>> THEN FieldErrors(defs[j], j - 1)
  ELSE FirstErrorsFrom(defs, j + 1)

RECURSIVE ErrorsFrom(_, _)
ErrorsFrom(defs, j) ==
  IF j > Len(defs) THEN <<>>
  ELSE FieldErrors(defs[j], j - 1) \o ErrorsFrom(defs, j + 1)

\* the lines of the FieldError message; <<>> when validate_fields returns
validate_fields(defs) == ErrorsFrom(defs, 1)

----------------------------------------------------------------------------
(* Text encodings and field names *)

Encodings(s) ==
  IF s = "csv_uploader" THEN <<"utf-8-sig", "utf-8", "iso-8859-1", "ascii">>
  ELSE <<"utf-8", "iso-8859-1", "ascii">>

\* The bytes of a line are "ascii" (all below 0x80), "utf8" (some valid
\* multi-byte UTF-8 sequence) or "latin1" (some byte that is not valid UTF-8).
ByteClasses == {"ascii", "utf8", "latin1"}

Decodes(enc, bytes) ==
  CASE enc \in {"utf-8-sig", "utf-8"} -> bytes # "latin1"
    [] enc = "iso-8859-1" -> TRUE
    [] OTHER -> bytes = "ascii"

\* the probing pass: every line of the file is read under the encoding
ProbeOK(enc, f) == \A j \in 1..Len(f) : Decodes(enc, f[j].bytes)

RECURSIVE lstrip(_)
lstrip(s) == IF s # <<>> /\ s[1] = " " THEN lstrip(Tail(s)) ELSE s

RECURSIVE rstrip(_)
rstrip(s) ==
  IF s # <<>> /\ s[Len(s)] = " " THEN rstrip(SubSeq(s, 1, Len(s) - 1)) ELSE s

strip(s) == rstrip(lstrip(s))

replace(s, old, new) == [j \in 1..Len(s) |-> IF s[j] = old THEN new ELSE s[j]]

startswith(s, c) == s # <<>> /\ s[1] = c

\* x.strip().replace('.', '_') for each header cell
CleanNames(names) ==
  [j \in 1..Len(names) |-> replace(strip(names[j]), ".", "_")]

DigitStr == <<"0", "1", "2", "3", "4", "5", "6", "7", "8", "9">>

\* 'Column_%d' % ii
ColumnName(ii) == <<"Column_", DigitStr[ii + 1]>>

FillNames(names) ==
  [j \in 1..Len(names) |-> IF names[j] = <<>> THEN ColumnName(j - 1) ELSE names[j]]

AUTO_PRIMARY_KEY == <<"_", "A", "U", "T", "O", "_">>

IdKey == <<"i", "d">>

\* csv.DictReader's restkey (None), the key of the extra cells of a long row
RestKey == <<"None">>

----------------------------------------------------------------------------
(* csv.DictReader rows and identifiers *)

HasKey(d, key) == \E j \in 1..Len(d) : d[j].key = key

\* d[key] = val of a dict kept in insertion order
DictSet(d, key, val) ==
  IF HasKey(d, key)
    THEN [j \in 1..Len(d) |-> IF d[j].key = key THEN [key |-> key, val |-> val] ELSE d[j]]
  ELSE Append(d, [key |-> key, val |-> val])

RECURSIVE ZipFrom(_, _, _, _)
ZipFrom(d, names, cells, j) ==
  IF j > Len(names) \/ j > Len(cells) THEN d
  ELSE ZipFrom(DictSet(d, names[j], PyStr(cells[j])), names, cells, j + 1)

RECURSIVE RestFrom(_, _, _)
RestFrom(d, names, j) ==
  IF j > Len(names) THEN d
  ELSE RestFrom(DictSet(d, names[j], PyNone), names, j + 1)

\* DictReader.__next__: dict(zip(fieldnames, row)), the extra cells of a long
\* row under the rest key, None for the missing cells of a short row
DictRow(names, cells) ==
  LET d == ZipFrom(<<>>, names, cells, 1)
  IN IF Len(names) < Len(cells)
       THEN DictSet(d, RestKey,
              PyList([j \in 1..(Len(cells) - Len(names)) |-> PyStr(cells[Len(names) + j])]))
     ELSE IF Len(names) > Len(cells) THEN RestFrom(d, names, Len(cells) + 1)
     ELSE d

ClockSeqBits == 14

\* a timestamp that is the clock reading, whatever was used before
ClockTimestamp(u, now) == now

\* uuid.uuid1(node, clock_seq) with the clock reading `now`: the timestamp
\* never repeats in a process, the clock sequence keeps its low 14 bits
Uuid1Timestamp(u, now) ==
  IF u.last_timestamp >= 0 /\ now <= u.last_timestamp
    THEN u.last_timestamp + 1 ELSE now

\* _make_id(): [uuid (the module state after), id]
_make_id(u, now) ==
  LET seq == u.clock_seq + 1
      ts == Uuid1Timestamp(u, now)
  IN [uuid |-> [u EXCEPT !.clock_seq = seq, !.last_timestamp = ts],
      id |-> PyUuidStr(ts, seq % (2 ^ ClockSeqBits), u.node)]

----------------------------------------------------------------------------
(* CsvExtractor.__init__ *)

Range(s) == {s[j] : j \in 1..Len(s)}

\* moving: whether the number of "Moving _ to the end" lines printed is odd
NewExtractor ==
  [fields |-> <<>>, encoding |-> "", fieldnames |-> <<>>, exception |-> "",
   e |-> 1, tried |-> <<>>, i |-> 1, moving |-> FALSE]

\* the header the probing DictReader reports: the names given, else the
\* first line of the file, else None (an empty file)
HasHeader == self.fields # <<>> \/ Len(file) > 0

Header == IF self.fields # <<>> THEN self.fields ELSE file[1].cells

\* what the except clause of the encoding loop catches
Catches(exc) ==
  IF script = "csv_uploader" THEN exc = "UnicodeDecodeError" ELSE TRUE

\* whether the names go through the loop that moves '_' to the end
MovesUnderscores == script = "csv_uploader"

\* lines 36-42: self.fields
CtorBegin ==
  /\ pc = "ctor"
  /\ self' = [NewExtractor EXCEPT
                !.fields = [j \in 1..Len(fields) |-> fields[j].field]]
  /\ pc' = "ctor_try"
  /\ UNCHANGED <<script, args, file, fields, error, message, gens, yielded,
                 uuid, record, rows, batches, requests, response, stderr,
                 stdout>>

\* one round of the loop over the encodings: the probing pass, the names
TryEncoding ==
  /\ pc = "ctor_try"
  /\ LET encs == Encodings(script)
         enc == encs[self.e]
         exc == IF ~ProbeOK(enc, file) THEN "UnicodeDecodeError"
                ELSE IF ~HasHeader THEN "TypeError" ELSE ""
         probed == [self EXCEPT
                      !.tried = Append(@, enc),
                      !.encoding = IF ProbeOK(enc, file) THEN enc ELSE @]
     IN IF exc = "" THEN
          /\ self' = [probed EXCEPT !.fieldnames = CleanNames(Header),
                                    !.exception = "", !.i = 1]
          /\ pc' = IF MovesUnderscores THEN "ctor_move" ELSE "ctor_fill"
          /\ error' = error
        ELSE IF ~Catches(exc) THEN
          /\ self' = probed
          /\ pc' = "failed"
          /\ error' = exc
        ELSE IF self.e < Len(encs) THEN
          /\ self' = [probed EXCEPT !.exception = exc, !.e = @ + 1]
          /\ pc' = "ctor_try"
          /\ error' = error
        ELSE \* no encoding worked: raise exception
          /\ self' = [probed EXCEPT !.exception = exc]
          /\ pc' = "failed"
          /\ error' = exc
  /\ UNCHANGED <<script, args, file, fields, message, gens, yielded, uuid,
                 record, rows, batches, requests, response, stderr, stdout>>

\* one step of "for i ...: while fieldnames[i].startswith('_'): ..."
MoveUnderscore ==
  /\ pc = "ctor_move"
  /\ IF self.i > Len(self.fieldnames) THEN
       /\ pc' = "ctor_fill"
       /\ self' = self
     ELSE IF startswith(self.fieldnames[self.i], "_") THEN
       /\ self' = [self EXCEPT
                    !.fieldnames[self.i] = Append(Tail(@), "_"),
                    !.moving = ~@]
       /\ pc' = pc
     ELSE
       /\ self' = [self EXCEPT !.i = @ + 1]
       /\ pc' = pc
  /\ UNCHANGED <<script, args, file, fields, error, message, gens, yielded,
                 uuid, record, rows, batches, requests, response, stderr,
                 stdout>>

\* lines 73-76: empty names become Column_<index>
FillColumns ==
  /\ pc = "ctor_fill"
  /\ self' = [self EXCEPT !.fieldnames = FillNames(@)]
  /\ pc' = "constructed"
  /\ UNCHANGED <<script, args, file, fields, error, message, gens, yielded,
                 uuid, record, rows, batches, requests, response, stderr,
                 stdout>>

----------------------------------------------------------------------------
(* CsvExtractor.extract_records: a generator [pos, done, raised]; pos is    *)
(* the line the reader is at, 0 before the first next() has opened the file *)

NewGenerator == [pos |-> 0, done |-> FALSE, raised |-> ""]

IsAuto == args.primaryKey = AUTO_PRIMARY_KEY

\* the reader left on the header line
OnHeader(line) == line

\* next(csv_reader) on line 83: the reader moves past the header line
AfterHeader(line) == line + 1

\* row['id'] = _make_id() in auto-identifier mode
WithId(row, id) == IF IsAuto THEN DictSet(row, IdKey, id) ELSE row

\* csv-uploader.py: str(uuid.uuid4()), 122 random bits (here the draw `bits`)
Uuid4Id(bits) == [uuid |-> uuid, id |-> PyUuidStr(bits, bits, bits)]

\* the identifier of a row in auto-identifier mode: [uuid, id]
MakeId(now) ==
  IF script = "csv_uploader" THEN _make_id(uuid, now) ELSE Uuid4Id(now)

Raised(g, exc) ==
  [gen |-> [g EXCEPT !.done = TRUE, !.raised = exc], out |-> exc,
   row |-> <<>>, uuid |-> uuid]

Yielded(at, made) ==
  [gen |-> [pos |-> at + 1, done |-> FALSE, raised |-> ""], out |-> "yield",
   row |-> WithId(DictRow(self.fieldnames, file[at].cells), made.id),
   uuid |-> IF IsAuto THEN made.uuid ELSE uuid]

ReadLine(g, at, now) ==
  IF at > Len(file)
    THEN [gen |-> [g EXCEPT !.pos = at, !.done = TRUE], out |-> "stop",
          row |-> <<>>, uuid |-> uuid]
  ELSE IF ~Decodes(self.encoding, file[at].bytes)
    THEN Raised(g, "UnicodeDecodeError")
  ELSE Yielded(at, MakeId(now))

\* next(generator) with the clock reading `now`:
\* [gen, out ("yield", "stop" or an exception), row, uuid]
GenNext(g, now) ==
  IF g.done THEN [gen |-> g, out |-> "stop", row |-> <<>>, uuid |-> uuid]
  ELSE IF g.pos = 0 /\ Len(file) = 0
    \* next(csv_reader) raises StopIteration inside the generator
    THEN Raised(g, "RuntimeError")
  ELSE IF g.pos = 0 /\ ~Decodes(self.encoding, file[1].bytes)
    THEN Raised(g, "UnicodeDecodeError")
  ELSE ReadLine(g, IF g.pos = 0 THEN AfterHeader(1) ELSE g.pos, now)

\* the clock readings a call of _make_id may see (the draws of uuid4)
Clock == IF IsAuto THEN 0..MaxClock ELSE {0}

----------------------------------------------------------------------------
(* The HTTP calls *)

\* what the server may answer: the status, and whether the body is JSON
Statuses == {200, 201, 300, 404, 503}
Bodies == {"json", "text"}
Responses == [status : Statuses, body : Bodies]
NoResponse == [status |-> 0, body |-> ""]

\* csv_uploader.py: [printed, exc] of one call answered by resp.
\* raise_for_status raises for the statuses 400..599 only.
request_api(resp) ==
  [printed |-> IF resp.status \notin {200, 201} THEN <<resp>> ELSE <<>>,
   exc |-> IF resp.status \notin {200, 201} /\ resp.status >= 400 /\ resp.status < 600
             THEN "HTTPError"
           ELSE IF resp.body = "text" THEN "JSONDecodeError"
           ELSE ""]

\* csv-uploader.py: the name `response` is not defined, so every status
\* other than 200 ends in a NameError before anything is printed or retried
post_to_api(resp) ==
  [printed |-> <<>>,
   exc |-> IF resp.status # 200 THEN "NameError"
           ELSE IF resp.body = "text" THEN "JSONDecodeError"
           ELSE ""]

Api(resp) ==
  IF script = "csv_uploader" THEN request_api(resp) ELSE post_to_api(resp)

NoData == [rows |-> <<>>, index |-> FALSE, fields |-> <<>>, primaryKey |-> <<>>]

\* one request: what it is for (the path of its URL), the method, the
\* dataset it names, the Authorization header and the JSON body
Request(kind, method, id, data) ==
  [kind |-> kind,
   method |-> IF script = "csv_uploader" THEN method ELSE "POST",
   id |-> id, auth |-> "apiKey", data |-> data]

\* whether the run indexes with every batch
Incremental == IF script = "csv_uploader" THEN args.index ELSE ~args.noIndex

\* process_batch(args, rows)
BatchRequest(batch) ==
  Request("rows", "POST", args.datasetId,
          [NoData EXCEPT !.rows = batch, !.index = Incremental])

\* the call: the request goes out, the answer is printed or raised
Call(req, resp, okpc) ==
  /\ requests' = Append(requests, req)
  /\ response' = resp
  /\ stderr' = stderr \o Api(resp).printed
  /\ IF Api(resp).exc # ""
       THEN pc' = "failed" /\ error' = Api(resp).exc
       ELSE pc' = okpc /\ error' = error

----------------------------------------------------------------------------
(* process_file *)

Msg(what) == <<[what |-> what, index |-> 0, type |-> ""]>>

\* lines 135-142: the field definitions are loaded and validated
LoadFields ==
  /\ pc = "start"
  /\ IF args.fields.given /\ validate_fields(args.fields.defs) # <<>> THEN
       /\ pc' = "failed"
       /\ error' = "FieldError"
       /\ message' = validate_fields(args.fields.defs)
       /\ fields' = fields
     ELSE
       /\ fields' = args.fields.defs
       /\ pc' = "ctor"
       /\ UNCHANGED <<error, message>>
  /\ UNCHANGED <<script, args, file, self, gens, yielded, uuid, record, rows,
                 batches, requests, response, stderr, stdout>>

StringField(name) == FieldDef(TRUE, name, TRUE, "string")

\* the field list of the create request
CreateFields ==
  (IF fields = <<>>
     THEN [j \in 1..Len(self.fieldnames) |-> StringField(self.fieldnames[j])]
   ELSE fields)
  \o (IF IsAuto THEN <<StringField(IdKey)>> ELSE <<>>)

\* the check of lines 167-169 left out
PrimaryKeyUnchecked == FALSE

\* lines 167-169: the declared primary key is no column of the file
PrimaryKeyMissing ==
  ~IsAuto /\ args.primaryKey \notin Range(self.fieldnames)

\* lines 143-193: create the dataset, or update its fields
ResolveDataset ==
  /\ pc = "constructed"
  /\ batches' = 1
  /\ IF args.datasetId = "" THEN
       IF script = "csv-uploader" /\ ~args.folderId THEN
         /\ pc' = "failed"
         /\ error' = "ValueError"
         /\ message' = Msg("Must specify folder ID")
         /\ UNCHANGED <<args, fields, requests, response, stderr>>
       ELSE IF PrimaryKeyMissing THEN
         /\ pc' = "failed"
         /\ error' = "ValueError"
         /\ message' = Msg("Primary key does not appear")
         /\ UNCHANGED <<args, fields, requests, response, stderr>>
       ELSE \E resp \in Responses :
         /\ fields' = CreateFields
         /\ Call(Request("create", "POST", "",
                   [NoData EXCEPT !.fields = CreateFields,
                                  !.primaryKey = IF IsAuto THEN IdKey
                                                 ELSE args.primaryKey]),
                 resp, "clear")
         /\ args' = IF Api(resp).exc = ""
                      THEN [args EXCEPT !.datasetId = "created"] ELSE args
         /\ message' = message
     ELSE IF fields # <<>> THEN
       \E resp \in Responses :
         /\ Call(Request("update", "PATCH", args.datasetId,
                   [NoData EXCEPT !.fields = fields]), resp, "clear")
         /\ UNCHANGED <<args, fields, message>>
     ELSE
       /\ pc' = "clear"
       /\ UNCHANGED <<args, fields, error, message, requests, response, stderr>>
  /\ UNCHANGED <<script, file, self, gens, yielded, uuid, record, rows, stdout>>

\* lines 195-201: clear the rows, then call extract_records
ClearRows ==
  /\ pc = "clear"
  /\ IF args.clear THEN
       \E resp \in Responses :
         Call(Request("clear", "DELETE", args.datasetId, NoData), resp, "upload")
     ELSE
       /\ pc' = "upload"
       /\ UNCHANGED <<error, requests, response, stderr>>
  /\ rows' = <<>>
  /\ gens' = IF pc' = "upload" THEN <<NewGenerator>> ELSE gens
  /\ yielded' = IF pc' = "upload" THEN << <<>> >> ELSE yielded
  /\ UNCHANGED <<script, args, file, fields, message, self, uuid, record,
                 batches, stdout>>

\* the batch is sent one row late
BatchOverfull(batch) == Len(batch) > args.batchSize

\* line 216: the batch has reached the configured size
BatchFull(batch) == Len(batch) >= args.batchSize

\* lines 201-219: one round of the loop over the records
ProcessRecord ==
  /\ pc = "upload"
  /\ \E now \in Clock :
     \E r \in {GenNext(gens[1], now)} :
     \E c \in {CoerceRecord(r.row)} :
     \E batch \in {Append(rows, c.rec)} :
          /\ gens' = <<r.gen>>
          /\ uuid' = r.uuid
          /\ yielded' = IF r.out = "yield"
                          THEN <<Append(yielded[1], r.row)>> ELSE yielded
          /\ IF r.out = "stop" THEN
               /\ pc' = "flush"
               /\ UNCHANGED <<error, record, rows, batches, requests,
                              response, stderr>>
             ELSE IF r.out # "yield" THEN
               /\ pc' = "failed"
               /\ error' = r.out
               /\ UNCHANGED <<record, rows, batches, requests, response, stderr>>
             ELSE IF c.exc # "" THEN
               /\ pc' = "failed"
               /\ error' = c.exc
               /\ record' = c.rec
               /\ UNCHANGED <<rows, batches, requests, response, stderr>>
             ELSE IF BatchFull(batch) THEN
               \E resp \in Responses :
                 /\ record' = c.rec
                 /\ Call(BatchRequest(batch), resp, "upload")
                 /\ rows' = IF Api(resp).exc = "" THEN <<>> ELSE batch
                 /\ batches' = IF Api(resp).exc = "" THEN batches + 1 ELSE batches
             ELSE
               /\ record' = c.rec
               /\ rows' = batch
               /\ UNCHANGED <<pc, error, batches, requests, response, stderr>>
  /\ UNCHANGED <<script, args, file, fields, message, self, stdout>>

\* lines 221-224: the rest of the rows, then the "Uploaded file" line
Flush ==
  /\ pc = "flush"
  /\ IF rows # <<>> THEN
       \E resp \in Responses :
         /\ Call(BatchRequest(rows), resp, "finish")
         /\ stdout' = IF Api(resp).exc = "" THEN <<batches>> ELSE stdout
     ELSE
       /\ pc' = "finish"
       /\ stdout' = <<batches>>
       /\ UNCHANGED <<error, requests, response, stderr>>
  /\ UNCHANGED <<script, args, file, fields, message, self, gens, yielded,
                 uuid, record, rows, batches>>

\* the condition of line 226 inverted
NeedsIndexInverted == Incremental

\* line 226: the dataset is indexed once at the end
NeedsIndex == ~Incremental

\* lines 226-228: the index request
Finish ==
  /\ pc = "finish"
  /\ IF NeedsIndex THEN
       \E resp \in Responses :
         Call(Request("index", "GET", args.datasetId, NoData), resp, "done")
     ELSE
       /\ pc' = "done"
       /\ UNCHANGED <<error, requests, response, stderr>>
  /\ UNCHANGED <<script, args, file, fields, message, self, gens, yielded,
                 uuid, record, rows, batches, stdout>>

----------------------------------------------------------------------------
(* The runs of the uploader *)

Scripts == {"csv_uploader", "csv-uploader"}

\* the cells of the data rows of the uploaded files, one row each
SampleCells ==
  << <<"1">>, <<"[", "1", ",", "2", "]">>, <<"x">>, <<"[", "1", "]">>,
     <<"[", "]">>, <<"1", ",", "2">> >>

SampleCell(j) ==
  IF j <= Len(SampleCells) THEN SampleCells[j] ELSE [n \in 1..j |-> "1"]

Line(bytes, cells) == [bytes |-> bytes, cells |-> cells]

UploadHeaders == { << <<"a">> >>, << <<"b">>, <<"_", "a">> >> }

UploadFile(header, n) ==
  <<Line("ascii", header)>> \o [j \in 1..n |-> Line("ascii", <<SampleCell(j)>>)]

UploadFiles ==
  {<<>>} \cup {UploadFile(h, n) : h \in UploadHeaders, n \in 0..MaxRecords}

PrimaryKeys == {AUTO_PRIMARY_KEY, <<"a">>, <<"a", "_">>}

NoFieldsFile == [given |-> FALSE, defs |-> <<>>]

FieldsFiles ==
  {NoFieldsFile} \cup
  {[given |-> TRUE, defs |-> d] :
     d \in {<<>>, <<StringField(<<"a">>)>>, <<FieldDef(TRUE, <<"a">>, FALSE, "")>>}}

ArgsOf(s, ds, fo, pk, b, x, c, fd) ==
  [datasetId |-> ds, folderId |-> fo /\ s = "csv-uploader", primaryKey |-> pk,
   batchSize |-> b, index |-> x /\ s = "csv_uploader",
   noIndex |-> x /\ s = "csv-uploader", clear |-> c, fields |-> fd]

\* the module state of a fresh process; _clock_seq is random below 2^14
FreshUuid(seq) == [node |-> 5, clock_seq |-> seq, last_timestamp |-> -1]

Quiet ==
  /\ error = ""
  /\ message = <<>>
  /\ self = NewExtractor
  /\ gens = <<>>
  /\ yielded = <<>>
  /\ record = <<>>
  /\ rows = <<>>
  /\ batches = 0
  /\ requests = <<>>
  /\ response = NoResponse
  /\ stderr = <<>>
  /\ stdout = <<>>

Init ==
  /\ script \in Scripts
  /\ args \in {ArgsOf(script, ds, fo, pk, b, x, c, fd) :
                 ds \in {"", "given"}, fo \in BOOLEAN, pk \in PrimaryKeys,
                 b \in 1..MaxBatch, x \in BOOLEAN, c \in BOOLEAN,
                 fd \in FieldsFiles}
  /\ file \in UploadFiles
  /\ uuid = FreshUuid(2 ^ ClockSeqBits - 2)
  /\ fields = <<>>
  /\ pc = "start"
  /\ Quiet

Next ==
  \/ LoadFields
  \/ CtorBegin
  \/ TryEncoding
  \/ MoveUnderscore
  \/ FillColumns
  \/ ResolveDataset
  \/ ClearRows
  \/ ProcessRecord
  \/ Flush
  \/ Finish

Spec == Init /\ [][Next]_vars

\* the runs of csv_uploader.py alone
InitCsvUploader == Init /\ script = "csv_uploader"

SpecCsvUploader == InitCsvUploader /\ [][Next]_vars

----------------------------------------------------------------------------
(* The Extractor on its own: construction, then calls of extract_records    *)
(* whose generators a consumer advances in any order                        *)

MaxAutoRecords == 2

\* extract_records(): a new generator; its body has not started
CallExtract ==
  /\ pc = "constructed"
  /\ Len(gens) < MaxCalls
  /\ gens' = Append(gens, NewGenerator)
  /\ yielded' = Append(yielded, <<>>)
  /\ UNCHANGED <<script, args, file, fields, pc, error, message, self, uuid,
                 record, rows, batches, requests, response, stderr, stdout>>

\* next() on one of the generators
NextRecord ==
  /\ pc = "constructed"
  /\ \E g \in 1..Len(gens), now \in Clock :
       /\ ~gens[g].done
       /\ \E r \in {GenNext(gens[g], now)} :
            /\ gens' = [gens EXCEPT ![g] = r.gen]
            /\ yielded' = [yielded EXCEPT
                             ![g] = IF r.out = "yield" THEN Append(@, r.row) ELSE @]
            /\ uuid' = r.uuid
  /\ UNCHANGED <<script, args, file, fields, pc, error, message, self, record,
                 rows, batches, requests, response, stderr, stdout>>

ExtractHeaders ==
  { << <<"a">> >>,
    << <<"_", "a">>, <<"b">> >>,
    << <<" ">>, <<"a", ".">> >>,
    << <<"_">> >> }

\* data row j: one cell, or two cells in the even rows
SampleRow(j) ==
  IF j % 2 = 0 THEN <<SampleCell(j), SampleCell(1)>> ELSE <<SampleCell(j)>>

\* a header and n data rows; line p (if any) holds bytes of class cls
FileWith(header, n, p, cls) ==
  [j \in 1..(n + 1) |->
     Line(IF j = p THEN cls ELSE "ascii",
          IF j = 1 THEN header ELSE SampleRow(j - 1))]

ExtractFiles ==
  {<<>>} \cup
  {FileWith(h, n, p, cls) :
     h \in ExtractHeaders, n \in 0..MaxRecords, p \in 0..(MaxRecords + 1),
     cls \in {"utf8", "latin1"}}

ExtractArgs(pk) == ArgsOf(script, "given", FALSE, pk, 1, FALSE, FALSE, NoFieldsFile)

\* either script on files of any bytes and shape with a declared key;
\* csv_uploader.py on plain files in auto-identifier mode, in a process whose
\* _clock_seq started just below 2^14
InitExtract ==
  /\ script \in Scripts
  /\ \/ /\ args = ExtractArgs(<<"a">>)
        /\ file \in ExtractFiles
        /\ fields \in {<<>>, <<StringField(<<"a">>)>>}
        /\ uuid = FreshUuid(0)
     \/ /\ script = "csv_uploader"
        /\ args = ExtractArgs(AUTO_PRIMARY_KEY)
        /\ file \in {UploadFile(<< <<"a">> >>, n) : n \in 0..MaxAutoRecords}
        /\ fields = <<>>
        /\ uuid = FreshUuid(2 ^ ClockSeqBits - 2)
  /\ pc = "ctor"
  /\ Quiet

NextExtract ==
  \/ CtorBegin
  \/ TryEncoding
  \/ MoveUnderscore
  \/ FillColumns
  \/ CallExtract
  \/ NextRecord

SpecExtract == InitExtract /\ [][NextExtract]_vars

\* the statements of the constructor, which the interpreter keeps executing
CtorStep == CtorBegin \/ TryEncoding \/ MoveUnderscore \/ FillColumns

SpecExtractFair == SpecExtract /\ WF_vars(CtorStep)

----------------------------------------------------------------------------
(* validate_fields on its own: the field definitions of the JSON file       *)

TypeNames == {"string", "geo_point", "text"}

DefKinds ==
  {FieldDef(hf, IF hf THEN <<"a">> ELSE <<>>, FALSE, "") : hf \in BOOLEAN}
  \cup {FieldDef(hf, IF hf THEN <<"a">> ELSE <<>>, TRUE, ty) :
          hf \in BOOLEAN, ty \in TypeNames}

DefLists == UNION {[1..n -> DefKinds] : n \in 0..MaxFields}

InitValidate ==
  /\ script \in Scripts
  /\ args \in {ArgsOf(script, "given", FALSE, <<"a">>, 1, FALSE, FALSE,
                      [given |-> TRUE, defs |-> d]) : d \in DefLists}
  /\ file = <<>>
  /\ uuid = FreshUuid(0)
  /\ fields = <<>>
  /\ pc = "start"
  /\ Quiet

SpecValidate == InitValidate /\ [][LoadFields]_vars

----------------------------------------------------------------------------
(* The coercion of one record on its own *)

\* lines 202-213: the loop over the values of the record
CoerceRow ==
  /\ pc = "coerce"
  /\ \E c \in {CoerceRecord(record)} :
       /\ record' = c.rec
       /\ error' = c.exc
       /\ pc' = IF c.exc = "" THEN "coerced" ELSE "failed"
  /\ UNCHANGED <<script, args, file, fields, message, self, gens, yielded,
                 uuid, rows, batches, requests, response, stderr, stdout>>

\* every string of at most n characters of the value grammar
Strings(n) == UNION {[1..m -> ValueChars] : m \in 0..n}

\* what may follow the first value in the record: the None of a short row,
\* a list literal, the extra cells of a long row
SecondValues ==
  { [key |-> <<"b">>, val |-> PyNone],
    [key |-> <<"b">>, val |-> PyStr(<<"[", "2", "]">>)],
    [key |-> RestKey, val |-> PyList(<<PyStr(<<"x">>)>>)] }

InitCoerce ==
  /\ script \in Scripts
  /\ args = ExtractArgs(<<"a">>)
  /\ file = <<>>
  /\ uuid = FreshUuid(0)
  /\ fields = <<>>
  /\ record \in {<<[key |-> <<"a">>, val |-> PyStr(s)], v>> :
                   s \in Strings(MaxValLen), v \in SecondValues}
  /\ yielded = << <<record>> >>
  /\ pc = "coerce"
  /\ error = ""
  /\ message = <<>>
  /\ self = NewExtractor
  /\ gens = <<>>
  /\ rows = <<>>
  /\ batches = 0
  /\ requests = <<>>
  /\ response = NoResponse
  /\ stderr = <<>>
  /\ stdout = <<>>

SpecCoerce == InitCoerce /\ [][CoerceRow]_vars

----------------------------------------------------------------------------
(* The normalization of one field name on its own, in csv_uploader.py and   *)
(* in csv-unique-count.py, applied to a raw name and then to its result     *)

MaxNameLen == 3

NameChars == {" ", ".", "_", "a"}

RawNames == UNION {[1..n -> NameChars] : n \in 0..MaxNameLen}

\* fieldnames[i][1:] + "_"
MoveOne(name) == Append(Tail(name), "_")

OnlyUnderscores(name) == \A j \in 1..Len(name) : name[j] = "_"

\* csv_uploader.py: while fieldnames[i].startswith('_'): move one
RECURSIVE MoveWhile(_)
MoveWhile(name) ==
  IF startswith(name, "_") THEN MoveWhile(MoveOne(name)) ELSE name

\* csv-unique-count.py: if field_name.startswith('_'): move one
MoveIf(name) == IF startswith(name, "_") THEN MoveOne(name) ELSE name

Normalizers == {"csv_uploader", "csv-unique-count"}

\* whether the normalization of the name comes to an end
Normalizes(s, name) ==
  LET clean == replace(strip(name), ".", "_")
  IN s = "csv-unique-count" \/ clean = <<>> \/ ~OnlyUnderscores(clean)

\* x.strip().replace('.', '_'), then the '_' moved to the end
NormalizedName(s, name) ==
  LET clean == replace(strip(name), ".", "_")
  IN IF s = "csv_uploader" THEN MoveWhile(clean) ELSE MoveIf(clean)

\* one application: to the header cell first, then to its own last result;
\* where the loop of csv_uploader.py does not end, nothing is produced
NormalizeName ==
  /\ pc = "normalize"
  /\ \E name \in {IF self.fieldnames = <<>> THEN file[1].cells[1]
                  ELSE self.fieldnames[Len(self.fieldnames)]} :
       IF Normalizes(script, name) THEN
         /\ self' = [self EXCEPT
                       !.fieldnames = Append(@, NormalizedName(script, name))]
         /\ pc' = IF Len(self.fieldnames) = 0 THEN "normalize" ELSE "normalized"
       ELSE
         /\ self' = self
         /\ pc' = pc
  /\ UNCHANGED <<script, args, file, fields, error, message, gens, yielded,
                 uuid, record, rows, batches, requests, response, stderr,
                 stdout>>

InitNormalize ==
  /\ script \in Normalizers
  /\ args = ArgsOf("csv_uploader", "given", FALSE, <<"a">>, 1, FALSE, FALSE,
                   NoFieldsFile)
  /\ file \in {<<Line("ascii", <<raw>>)>> : raw \in RawNames}
  /\ uuid = FreshUuid(0)
  /\ fields = <<>>
  /\ pc = "normalize"
  /\ Quiet

SpecNormalize == InitNormalize /\ [][NormalizeName]_vars

----------------------------------------------------------------------------
(* Properties of the uploader runs *)

Kinds == [j \in 1..Len(requests) |-> requests[j].kind]

IsRowRequest(q) == q.kind = "rows"

RowRequests == SelectSeq(requests, IsRowRequest)

RECURSIVE Payloads(_)
Payloads(reqs) ==
  IF reqs = <<>> THEN <<>> ELSE reqs[1].data.rows \o Payloads(Tail(reqs))

CeilDiv(n, b) == (n + b - 1) \div b

\* the row loop and the last batch are through: the "Uploaded file" line is out
StreamingDone == stdout # <<>>

\* the records of extract_records as they are batched (after the coercion)
Streamed == [j \in 1..Len(yielded[1]) |-> CoerceRecord(yielded[1][j]).rec]

\* C1: once the rows are streamed, N records in batches of B have gone out
\* in ceil(N/B) row requests; each but the last carries B records, the last
\* between 1 and B, none is empty, and the payloads in order are the records
\* in order.
C1_Batching ==
  StreamingDone =>
    /\ Len(RowRequests) = CeilDiv(Len(yielded[1]), args.batchSize)
    /\ \A j \in 1..Len(RowRequests) :
         /\ Len(RowRequests[j].data.rows) >= 1
         /\ Len(RowRequests[j].data.rows) <= args.batchSize
         /\ j < Len(RowRequests) => Len(RowRequests[j].data.rows) = args.batchSize
    /\ Payloads(RowRequests) = Streamed

\* C1 witness: three records in batches of two went out as 2 + 1
C1_Witness ==
  /\ pc = "done"
  /\ Len(yielded[1]) = 3
  /\ args.batchSize = 2
  /\ Len(RowRequests) = 2
  /\ Len(RowRequests[2].data.rows) = 1

\* C2: an answer 503 (server busy) never makes the run fail (the request is
\* sent again until another answer comes).
C2_BusyIsRetried == response.status = 503 => pc # "failed"

KeyAbsent ==
  /\ args.primaryKey # AUTO_PRIMARY_KEY
  /\ \A j \in 1..Len(self.fieldnames) : self.fieldnames[j] # args.primaryKey

FailedForMissingKey ==
  /\ pc = "failed"
  /\ error = "ValueError"
  /\ message = Msg("Primary key does not appear")
  /\ requests = <<>>

\* C3 as stated: once the Extractor is built, a declared primary key that is
\* none of its field names ends the run with the missing-primary-key error
\* before any request, with or without a dataset id.
C3_MissingKeyAlways == (batches >= 1 /\ KeyAbsent) => FailedForMissingKey

\* C3 amended: the same when no dataset id was supplied (and, in
\* csv-uploader.py, a folder id was).
C3_MissingKeyOnCreate ==
  (/\ batches >= 1
   /\ KeyAbsent
   /\ args.datasetId # "given"
   /\ script = "csv-uploader" => args.folderId)
  => FailedForMissingKey

\* C3 witness: a run without dataset id ended on the missing key
C3_Witness ==
  /\ FailedForMissingKey
  /\ KeyAbsent
  /\ args.datasetId = ""
  /\ self.fieldnames = << <<"b">>, <<"a", "_">> >>
  /\ args.primaryKey = <<"a">>

SchemaPart ==
  IF args.datasetId = "created" THEN <<"create">>
  ELSE IF args.fields.given /\ args.fields.defs # <<>> THEN <<"update">>
  ELSE <<>>

ClearPart == IF args.clear THEN <<"clear">> ELSE <<>>

RowsPart == [j \in 1..Len(RowRequests) |-> "rows"]

IndexPart == IF Incremental THEN <<>> ELSE <<"index">>

\* C4: a run that completes has issued, in this order: the create request iff
\* no dataset id was supplied, else the update request iff field definitions
\* were; the clear request iff asked for; the row requests; the index request
\* iff indexing is not incremental.
C4_RequestOrder ==
  pc = "done" => Kinds = SchemaPart \o ClearPart \o RowsPart \o IndexPart

\* C4 witness: update, clear, two row requests, index; and a run with no
\* record is checked by C4_RequestOrder as well
C4_Witness ==
  /\ pc = "done"
  /\ Kinds = <<"update", "clear", "rows", "rows", "index">>

\* C5: an answer that is neither success nor 503 is printed and ends the run
\* (so no later request goes out).
C5_FailureIsFatal ==
  response.status \notin {0, 200, 201, 503} =>
    /\ pc = "failed"
    /\ \E j \in 1..Len(stderr) : stderr[j] = response

----------------------------------------------------------------------------
(* Properties of the Extractor *)

Constructing == pc \in {"ctor", "ctor_try"}

\* the place in the list of the first encoding that decodes every line of
\* the file, 0 when there is none
FirstDecoding ==
  LET encs == Encodings(script)
      ok == {e \in 1..Len(encs) : ProbeOK(encs[e], file)}
  IN IF ok = {} THEN 0 ELSE CHOOSE e \in ok : \A o \in ok : e <= o

\* C6: once the loop over the encodings is over, the encoding committed is the
\* first of the list that decodes the whole file and nothing after it was
\* tried; construction has failed exactly when no encoding of the list decodes
\* the file, with the decoding error of the last one.
C6_EncodingSelection ==
  LET encs == Encodings(script)
  IN ~Constructing =>
       /\ pc # "failed" =>
            /\ FirstDecoding > 0
            /\ self.encoding = encs[FirstDecoding]
            /\ self.tried = SubSeq(encs, 1, FirstDecoding)
       /\ pc = "failed" =>
            /\ FirstDecoding = 0
            /\ self.tried = encs
            /\ error = "UnicodeDecodeError"

\* record k of the file as the reader built on the names makes it
RowOf(k) == DictRow(self.fieldnames, file[k + 1].cells)

IdOf(row) == row[CHOOSE j \in 1..Len(row) : row[j].key = IdKey].val

\* the record without regard to the identifier added in auto mode
IsRowOf(row, k) ==
  IF IsAuto THEN HasKey(row, IdKey) /\ row = DictSet(RowOf(k), IdKey, IdOf(row))
  ELSE row = RowOf(k)

DataRows == IF Len(file) = 0 THEN 0 ELSE Len(file) - 1

\* C7: whatever the order in which the calls of extract_records are
\* consumed, each call has yielded the records of the data rows from the
\* first one on, in file order and never the header, and a call that has
\* ended has yielded one record for every data row.
C7_RecordsInFileOrder ==
  \A g \in 1..Len(gens) :
    /\ Len(yielded[g]) <= DataRows
    /\ \A k \in 1..Len(yielded[g]) : IsRowOf(yielded[g][k], k)
    /\ gens[g].done => Len(yielded[g]) = DataRows

\* C7 witness: a first call consumed to the end of a file of MaxRecords rows,
\* and a later call of which one record has been taken
C7_Witness ==
  /\ Len(gens) = 2
  /\ gens[1].done /\ gens[1].raised = ""
  /\ Len(yielded[1]) = MaxRecords
  /\ Len(yielded[2]) = 1 /\ ~gens[2].done
  /\ self.encoding = "iso-8859-1"

Produced == {<<g, k>> : g \in 1..Len(yielded), k \in 1..MaxRecords}

Ids == {IdOf(yielded[p[1]][p[2]]) : p \in {q \in Produced : q[2] <= Len(yielded[q[1]])}}

IdCount ==
  Cardinality({q \in Produced : q[2] <= Len(yielded[q[1]])})

\* C8: in auto-identifier mode of csv_uploader.py every record yielded has an
\* id that is a str, and the ids of all the calls of extract_records differ
\* pairwise; they differ in their time field, which never exceeds the last
\* time the process has used, so the clock sequence wrapping around its 14 bits
\* cannot make two of them equal.
C8_UniqueStringIds ==
  (script = "csv_uploader" /\ IsAuto) =>
    /\ \A g \in 1..Len(yielded) : \A k \in 1..Len(yielded[g]) :
         /\ HasKey(yielded[g][k], IdKey)
         /\ IdOf(yielded[g][k]).k = "str"
         /\ IdOf(yielded[g][k]).u[1] <= uuid.last_timestamp
    /\ Cardinality(Ids) = IdCount
    /\ Cardinality({id.u[1] : id \in Ids}) = IdCount

\* C8 witness: two calls of extract_records have yielded two records each
\* and the counter _clock_seq has passed 2^14
C8_Witness ==
  /\ script = "csv_uploader" /\ IsAuto
  /\ Len(yielded) = 2
  /\ Len(yielded[1]) = 2 /\ Len(yielded[2]) = 2
  /\ uuid.clock_seq > 2 ^ ClockSeqBits

----------------------------------------------------------------------------
(* Properties of validate_fields *)

Violates(field) ==
  ~field.hasField \/ ~field.hasType \/ field.type \notin ALLOWED_TYPES

\* every violation of every entry: [what, index (zero-based), type]
Violations(defs) ==
  {[what |-> "Missing 'field'", index |-> i - 1, type |-> ""] :
     i \in {j \in 1..Len(defs) : ~defs[j].hasField}}
  \cup {[what |-> "Missing 'type'", index |-> i - 1, type |-> ""] :
          i \in {j \in 1..Len(defs) : ~defs[j].hasType}}
  \cup {[what |-> "Invalid type", index |-> i - 1, type |-> defs[i].type] :
          i \in {j \in 1..Len(defs) :
                   defs[j].hasType /\ defs[j].type \notin ALLOWED_TYPES}}

\* C9: validate_fields raises FieldError iff some entry violates; its message
\* then has one line for each violation of each entry, in entry order; with
\* no violation it returns and the run goes on.
C9_AllViolations ==
  LET defs == args.fields.defs
  IN pc # "start" =>
       /\ error = "FieldError" <=> \E j \in 1..Len(defs) : Violates(defs[j])
       /\ error = "FieldError" =>
            /\ pc = "failed"
            /\ Range(message) = Violations(defs)
            /\ Len(message) = Cardinality(Violations(defs))
            /\ \A j \in 1..Len(message) : \A k \in j..Len(message) :
                 message[j].index <= message[k].index
       /\ error # "FieldError" =>
            /\ pc = "ctor" /\ error = "" /\ message = <<>>

\* C9 witness: a valid first entry, then two entries in violation, the last
\* one twice
C9_Witness ==
  /\ error = "FieldError"
  /\ Len(args.fields.defs) = 3
  /\ ~Violates(args.fields.defs[1])
  /\ Len(message) = 3
  /\ message[1].index = 1 /\ message[3].index = 2

----------------------------------------------------------------------------
(* Properties of the coercion *)

\* what the rule makes of one value
Expected(value) ==
  LET r == literal_eval(value)
  IN IF r.exc = "" /\ r.val.k = "list"
       THEN IF Len(r.val.items) >= 2 THEN r.val
            ELSE IF Len(r.val.items) = 1 THEN r.val.items[1]
            ELSE PyNone
     ELSE value

\* C10: the loop over the values of a record never ends the run; a value
\* that is the literal of a list becomes the list, its only element or None,
\* and every other value, whyever its parsing fails, stays as it was.
C10_Coercion ==
  pc # "coerce" =>
    /\ pc = "coerced"
    /\ \A j \in 1..Len(record) :
         /\ record[j].key = yielded[1][1][j].key
         /\ record[j].val = Expected(yielded[1][1][j].val)

----------------------------------------------------------------------------
(* Properties of the normalization *)

\* C11: normalizing a name that is itself the result of the normalization
\* returns it unchanged.
C11_Idempotent ==
  pc = "normalized" => self.fieldnames[2] = self.fieldnames[1]

\* C12: in csv_uploader.py the loop that moves the leading '_' of the names
\* to the end is always left, and then no name starts with '_'.
C12_MoveTerminates ==
  /\ (pc = "ctor_move") ~> (pc = "ctor_fill")
  /\ [](pc = "ctor_fill" /\ MovesUnderscores =>
          \A j \in 1..Len(self.fieldnames) : ~startswith(self.fieldnames[j], "_"))

----------------------------------------------------------------------------
(* Properties of the batch count *)

\* C13: a run that ends without error has printed one line "Uploaded file
\* in N batches", and N is the number of row requests the run has issued.
C13_BatchCount ==
  pc = "done" => stdout = <<Len(RowRequests)>>

====
